---------------------------- MODULE Spec2Model ----------------------------
(***************************************************************************)
(* A model of the refgc scripting-language front end and evaluator:        *)
(* tokenize (main.go), the recursive-descent parser (main.go) and the      *)
(* tree-walking interpreter (eval.go).                                     *)
(*                                                                         *)
(* One run of main() is one behaviour: the source text is scanned and      *)
(* tokenized, parseFile parses one top-level statement per step, and       *)
(* evalBlock executes one top-level statement per step.  The recursive Go  *)
(* functions are RECURSIVE operators that thread the state they touch.     *)
(***************************************************************************)
EXTENDS Integers, Sequences, FiniteSets, TLC

(***************************************************************************)
(* Bounds of the model.                                                    *)
(***************************************************************************)
\* Longest source drawn from the small lexeme alphabet (in lexemes).
MaxToks == 3
\* Iterations of one while statement after which the run counts as hung.
MaxLoop == 4

(***************************************************************************)
(* Lexemes.  TLC cannot look inside a string, so the three tests of the    *)
(* classification pass that look at characters (isnum, a leading quote, a  *)
(* leading letter) are tables over the lexemes the model uses.             *)
(***************************************************************************)
\* strconv.Atoi on the decimal lexemes of the model.
AtoiTable ==
  ("0" :> 0) @@ ("1" :> 1) @@ ("2" :> 2) @@ ("3" :> 3) @@ ("5" :> 5) @@
  ("7" :> 7) @@ ("10" :> 10) @@ ("20" :> 20) @@ ("99" :> 99)

isnum(s) == s \in DOMAIN AtoiTable

\* Lexemes whose first character is a double quote.
QuotedLexemes == {"\"s\"", "\"t\""}

\* Lexemes whose first character is a letter (keywords are matched earlier).
LetterLexemes ==
  {"a", "b", "f", "g", "i", "k", "x", "y", "z", "print", "true", "false",
   "if", "else", "func", "return", "while"}

ZeroTok == [ttype |-> "tillegal", pos |-> 0, text |-> ""]

(***************************************************************************)
(* text/scanner: the source text is a sequence of lexemes in which " "     *)
(* stands for white space; Scan gives every lexeme its byte offset.        *)
(***************************************************************************)
\* The bytes of text[lo..hi].
RECURSIVE Width(_, _, _)
Width(text, lo, hi) ==
  IF lo > hi THEN 0
  ELSE IF lo = hi THEN Len(text[lo])
  ELSE Width(text, lo, (lo + hi) \div 2) + Width(text, (lo + hi) \div 2 + 1, hi)

\* The loop over s.Scan(): token{pos: s.Position, text: s.TokenText()}.
Scan(text) ==
  SelectSeq([i \in 1..Len(text) |->
               [ttype |-> "tillegal", pos |-> Width(text, 1, i - 1), text |-> text[i]]],
            LAMBDA t : t.text # " ")

\* Every lexeme followed by white space.
Spaced(ls) ==
  [i \in 1..(2 * Len(ls)) |-> IF i % 2 = 1 THEN ls[(i + 1) \div 2] ELSE " "]

(***************************************************************************)
(* tokenize: the compound-operator merge pass and the classification pass. *)
(***************************************************************************)
RemoveAt(s, j) == SubSeq(s, 1, j - 1) \o SubSeq(s, j + 1, Len(s))

AppendText(s, i, c) == [s EXCEPT ![i].text = @ \o c]

\* The body of the merge loop at indices i = j - 1 and j (1-based).
mergeAt(tokens, j) ==
  LET i == j - 1
      adjacent == tokens[i].pos = tokens[j].pos - 1
  IN  IF adjacent /\ tokens[j].text = "="
      THEN RemoveAt(IF tokens[i].text \in {"=", "!", "<", ">"}
                    THEN AppendText(tokens, i, "=") ELSE tokens, j)
      ELSE IF adjacent /\ tokens[j].text = "&"
      THEN RemoveAt(IF tokens[i].text = "&" THEN AppendText(tokens, i, "&") ELSE tokens, j)
      ELSE IF adjacent /\ tokens[j].text = "|"
      THEN RemoveAt(IF tokens[i].text = "|" THEN AppendText(tokens, i, "|") ELSE tokens, j)
      ELSE tokens

\* for i, j := 0, 1; j < len(tokens); i, j = i+1, j+1
RECURSIVE mergePass(_, _)
mergePass(tokens, j) ==
  IF j > Len(tokens) THEN tokens ELSE mergePass(mergeAt(tokens, j), j + 1)

PunctTable ==
  ("+" :> "tplus") @@ ("-" :> "tsub") @@ ("*" :> "tmul") @@ ("/" :> "tquo") @@
  ("%" :> "trem") @@ ("=" :> "tassign") @@ ("&&" :> "tland") @@
  ("||" :> "tlor") @@ ("==" :> "teql") @@ ("<" :> "tlss") @@ (">" :> "tgtr") @@
  ("!" :> "tnot") @@ ("!=" :> "tneq") @@ ("<=" :> "tleq") @@ (">=" :> "tgeq") @@
  ("(" :> "tlparen") @@ ("[" :> "tlbrack") @@ ("{" :> "tlbrace") @@
  ("," :> "tcomma") @@ ("." :> "tperiod") @@ (")" :> "trparen") @@
  ("]" :> "trbrack") @@ ("}" :> "trbrace") @@ (";" :> "tsemicolon") @@
  (":" :> "tcolon") @@ ("if" :> "tif") @@ ("else" :> "telse") @@
  ("func" :> "tfunc") @@ ("return" :> "treturn") @@ ("while" :> "twhile")

\* The ttype of one token text; "invalid" when no rule matches.
classify(text) ==
  IF text = "" THEN "tillegal"
  ELSE IF isnum(text) THEN "tnum"
  ELSE IF text \in QuotedLexemes THEN "tstring"
  ELSE IF text \in DOMAIN PunctTable THEN PunctTable[text]
  ELSE IF text \in LetterLexemes THEN "tident"
  ELSE "invalid"

\* tokenize(name, r): [tokens, err].
tokenize(raw) ==
  LET merged == mergePass(raw, 2)
      bad == {i \in 1..Len(merged) : classify(merged[i].text) = "invalid"}
  IN  IF bad # {}
      THEN [tokens |-> <<>>, err |-> "invalid token"]
      ELSE [tokens |-> [i \in 1..Len(merged) |->
                          [merged[i] EXCEPT !.ttype = classify(merged[i].text)]],
            err |-> ""]

(***************************************************************************)
(* The AST: one node type, tagged by kind.  NilNode is the nil *node.      *)
(***************************************************************************)
NilNode == [kind |-> "nil", pos |-> 0, value |-> ZeroTok, list |-> <<>>]

Node(kind, pos, value, list) ==
  [kind |-> kind, pos |-> pos, value |-> value, list |-> list]

(***************************************************************************)
(* The parser.  Every parse operator takes p.src and returns the node, the *)
(* error ("" is nil) and the p.src it leaves.                              *)
(***************************************************************************)
Ok(node, src) == [node |-> node, err |-> "", src |-> src]
Fail(msg, src) == [node |-> NilNode, err |-> msg, src |-> src]

peek(src) == IF Len(src) > 0 THEN src[1].ttype ELSE "tillegal"

consume(src) == IF Len(src) > 0 THEN Tail(src) ELSE src

pos(src) == IF Len(src) > 0 THEN src[1].pos ELSE 0

\* var tok token; if len(p.src) > 0 { tok = p.src[0] }
first(src) == IF Len(src) > 0 THEN src[1] ELSE ZeroTok

prec(tok) ==
  CASE tok.ttype = "tlor" -> 1
    [] tok.ttype = "tland" -> 2
    [] tok.ttype \in {"teql", "tneq", "tlss", "tleq", "tgtr", "tgeq"} -> 3
    [] tok.ttype \in {"tplus", "tsub"} -> 4
    [] tok.ttype \in {"tmul", "tquo", "trem"} -> 5
    [] OTHER -> 0

lowestPrec == 0

\* expectSemi: [src, err].
expectSemi(src) ==
  IF peek(src) # "trparen" /\ peek(src) # "trbrack"
  THEN IF peek(src) = "tsemicolon"
       THEN [src |-> consume(src), err |-> ""]
       ELSE [src |-> src, err |-> "expected ;"]
  ELSE [src |-> src, err |-> ""]

parseIdent(src) ==
  LET tok == first(src)
  IN  IF tok.ttype # "tident" THEN Fail("expected identifier", src)
      ELSE Ok(Node("kident", tok.pos, tok, <<>>), consume(src))

RECURSIVE parseStmt(_), parseBlock(_), parseBlockStmts(_, _), parseExpr(_),
          parseBinaryExpr(_, _), parseBinaryLoop(_, _, _), parseUnaryExpr(_),
          parsePrimaryExpr(_), parsePostfix(_, _), parseCallArgs(_, _),
          parseOperand(_), parseElements(_, _), parseParams(_, _),
          parserCall(_, _)

\* The statement loop of parseBlock; node.list carries the statements.
parseBlockStmts(src, stmts) ==
  IF peek(src) # "tillegal" /\ peek(src) # "trbrace"
  THEN LET s == parserCall("parseStmt", <<src>>)
       IN  IF s.err # "" THEN Fail(s.err, s.src)
           ELSE parserCall("parseBlockStmts", <<s.src, Append(stmts, s.node)>>)
  ELSE Ok(Node("list", 0, ZeroTok, stmts), src)

parseBlock(src) ==
  LET at == pos(src)
      r == parserCall("parseBlockStmts", <<consume(src), <<>>>>)
  IN  IF r.err # "" THEN r
      ELSE IF peek(r.src) = "tillegal"
      THEN Fail("expected } at end of block", r.src)
      ELSE Ok(Node("kblockstmt", at, ZeroTok, r.node.list), consume(r.src))

parseStmt(src) ==
  CASE peek(src) = "tlbrace" ->
         LET block == parserCall("parseBlock", <<src>>)
         IN  IF block.err # "" THEN block
             ELSE LET semi == expectSemi(block.src)
                  IN  IF semi.err # "" THEN Fail(semi.err, semi.src)
                      ELSE Ok(block.node, semi.src)
    [] peek(src) = "tif" ->
         LET at == pos(src)
             cond == parserCall("parseExpr", <<consume(src)>>)
         IN  IF cond.err # "" THEN cond
             ELSE IF peek(cond.src) # "tlbrace"
             THEN Fail("if statement missing body", cond.src)
             ELSE
               LET block == parserCall("parseBlock", <<cond.src>>)
               IN  IF block.err # "" THEN block
                   ELSE IF peek(block.src) = "telse"
                   THEN
                     LET s1 == consume(block.src)
                     IN  CASE peek(s1) = "tif" ->
                                LET elstmt == parserCall("parseStmt", <<s1>>)
                                IN  IF elstmt.err # "" THEN elstmt
                                    ELSE Ok(Node("kifstmt", at, ZeroTok,
                                                 <<cond.node, block.node, elstmt.node>>),
                                            elstmt.src)
                           [] peek(s1) = "tlbrace" ->
                                LET elstmt == parserCall("parseBlock", <<s1>>)
                                IN  IF elstmt.err # "" THEN elstmt
                                    ELSE LET semi == expectSemi(elstmt.src)
                                         IN  IF semi.err # "" THEN Fail(semi.err, semi.src)
                                             ELSE Ok(Node("kifstmt", at, ZeroTok,
                                                          <<cond.node, block.node, elstmt.node>>),
                                                     semi.src)
                           [] OTHER ->
                                Fail("else must be followed by if statement or block", s1)
                   ELSE
                     LET semi == expectSemi(block.src)
                     IN  IF semi.err # "" THEN Fail(semi.err, semi.src)
                         ELSE Ok(Node("kifstmt", at, ZeroTok, <<cond.node, block.node>>),
                                 semi.src)
    [] peek(src) = "tsemicolon" ->
         Ok(Node("kemptystmt", pos(src), ZeroTok, <<>>), consume(src))
    [] peek(src) = "twhile" ->
         LET at == pos(src)
             cond == parserCall("parseExpr", <<consume(src)>>)
         IN  IF cond.err # "" THEN cond
             ELSE IF peek(cond.src) # "tlbrace"
             THEN Fail("while statement missing body", cond.src)
             ELSE LET block == parserCall("parseBlock", <<cond.src>>)
                  IN  IF block.err # "" THEN block
                      ELSE Ok(Node("kwhilestmt", at, ZeroTok, <<cond.node, block.node>>),
                              block.src)
    [] peek(src) = "treturn" ->
         LET at == pos(src)
             s1 == consume(src)
             expr == IF peek(s1) # "tsemicolon" /\ peek(s1) # "trbrace"
                     THEN parserCall("parseExpr", <<s1>>)
                     ELSE Ok(NilNode, s1)
         IN  IF expr.err # "" THEN expr
             ELSE LET semi == expectSemi(expr.src)
                  IN  IF semi.err # "" THEN Fail(semi.err, semi.src)
                      ELSE Ok(Node("kreturnstmt", at, ZeroTok, <<expr.node>>), semi.src)
    [] peek(src) \in {"tident", "tlbrack", "tlparen"} ->
         LET at == pos(src)
             x == parserCall("parseExpr", <<src>>)
         IN  IF x.err # "" THEN x
             ELSE IF peek(x.src) = "tassign"
             THEN LET y == parserCall("parseExpr", <<consume(x.src)>>)
                  IN  IF y.err # "" THEN y
                      ELSE LET semi == expectSemi(y.src)
                           IN  IF semi.err # "" THEN Fail(semi.err, semi.src)
                               ELSE Ok(Node("kassignstmt", at, ZeroTok, <<x.node, y.node>>),
                                       semi.src)
             ELSE Ok(Node("kexprstmt", at, ZeroTok, <<x.node>>), x.src)
    [] OTHER -> Fail("invalid statement", src)

parseExpr(src) == parserCall("parseBinaryExpr", <<src, lowestPrec + 1>>)

\* The for loop of parseBinaryExpr, with x the expression parsed so far.
parseBinaryLoop(x, src, prec1) ==
  LET tok == first(src)
      oprec == prec(tok)
  IN  IF oprec < prec1 THEN Ok(x, src)
      ELSE LET y == parserCall("parseBinaryExpr", <<consume(src), oprec + 1>>)
           IN  IF y.err # "" THEN y
               ELSE parserCall("parseBinaryLoop", <<Node("kbinaryexpr", x.pos, tok, <<x, y.node>>),
                                    y.src, prec1>>)

parseBinaryExpr(src, prec1) ==
  LET x == parserCall("parseUnaryExpr", <<src>>)
  IN  IF x.err # "" THEN x ELSE parserCall("parseBinaryLoop", <<x.node, x.src, prec1>>)

parseUnaryExpr(src) ==
  LET op == first(src)
  IN  IF op.ttype \in {"tplus", "tsub", "tnot"}
      THEN LET x == parserCall("parseUnaryExpr", <<consume(src)>>)
           IN  IF x.err # "" THEN x
               ELSE Ok(Node("kunaryexpr", op.pos, op, <<x.node>>), x.src)
      ELSE parserCall("parsePrimaryExpr", <<src>>)

\* The argument loop of a call; args starts as <<x>>.
parseCallArgs(src, args) ==
  IF peek(src) # "trparen" /\ peek(src) # "tillegal"
  THEN LET ex == parserCall("parseExpr", <<src>>)
       IN  IF ex.err # "" THEN ex
           ELSE parserCall("parseCallArgs", <<IF peek(ex.src) = "tcomma" THEN consume(ex.src) ELSE ex.src,
                              Append(args, ex.node)>>)
  ELSE Ok(Node("list", 0, ZeroTok, args), src)

\* The postfix loop L of parsePrimaryExpr.
parsePostfix(x, src) ==
  LET at == pos(src)
  IN  CASE peek(src) = "tperiod" ->
             LET s1 == consume(src)
             IN  IF peek(s1) = "tident"
                 THEN LET sel == parseIdent(s1)
                      IN  IF sel.err # "" THEN sel
                          ELSE parserCall("parsePostfix", <<Node("kselectorexpr", at, ZeroTok,
                                                 <<x, sel.node>>), sel.src>>)
                 ELSE Fail("expected selector", s1)
        [] peek(src) = "tlbrack" ->
             LET index == parserCall("parseExpr", <<consume(src)>>)
             IN  IF index.err # "" THEN index
                 ELSE IF peek(index.src) # "trbrack"
                 THEN Fail("expected ] in index expression", index.src)
                 ELSE parserCall("parsePostfix", <<Node("kindexexpr", at, ZeroTok, <<x, index.node>>),
                                   consume(index.src)>>)
        [] peek(src) = "tlparen" ->
             LET args == parserCall("parseCallArgs", <<consume(src), <<x>>>>)
             IN  IF args.err # "" THEN args
                 ELSE IF peek(args.src) = "tillegal"
                 THEN Fail("expected ) at end of call", args.src)
                 ELSE parserCall("parsePostfix", <<Node("kcallexpr", at, ZeroTok, args.node.list),
                                   consume(args.src)>>)
        [] OTHER -> Ok(x, src)

parsePrimaryExpr(src) ==
  LET x == parserCall("parseOperand", <<src>>)
  IN  IF x.err # "" THEN x ELSE parserCall("parsePostfix", <<x.node, x.src>>)

\* The element loop of an array literal.
parseElements(src, elements) ==
  IF peek(src) # "trbrack" /\ peek(src) # "tillegal"
  THEN LET xpos == pos(src)
           x == parserCall("parseExpr", <<src>>)
       IN  IF x.err # "" THEN x
           ELSE IF peek(x.src) = "tcolon"
           THEN LET y == parserCall("parseExpr", <<consume(x.src)>>)
                IN  IF y.err # "" THEN y
                    ELSE parserCall("parseElements", <<
                           IF peek(y.src) = "tcomma" THEN consume(y.src) ELSE y.src,
                           Append(elements, Node("kkvexpr", xpos, ZeroTok, <<x.node, y.node>>))>>)
           ELSE parserCall("parseElements", <<IF peek(x.src) = "tcomma" THEN consume(x.src) ELSE x.src,
                              Append(elements, x.node)>>)
  ELSE Ok(Node("list", 0, ZeroTok, elements), src)

\* The parameter loop of a func literal.
parseParams(src, list) ==
  IF peek(src) # "trparen" /\ peek(src) # "tillegal"
  THEN LET id == parseIdent(src)
       IN  IF id.err # "" THEN id
           ELSE parserCall("parseParams", <<IF peek(id.src) = "tcomma" THEN consume(id.src) ELSE id.src,
                            Append(list, id.node)>>)
  ELSE Ok(Node("list", 0, ZeroTok, list), src)

parseOperand(src) ==
  CASE peek(src) = "tident" -> parseIdent(src)
    [] peek(src) \in {"tnum", "tstring"} ->
         LET tok == first(src)
             ktyp == IF tok.ttype = "tstring" THEN "kstringlit" ELSE "knumlit"
         IN  Ok(Node(ktyp, tok.pos, tok, <<>>), consume(src))
    [] peek(src) = "tlparen" ->
         LET at == pos(src)
             x == parserCall("parseExpr", <<consume(src)>>)
         IN  IF x.err # "" THEN x
             ELSE IF peek(x.src) # "trparen" THEN Fail("expected ) following (", x.src)
             ELSE Ok(Node("kparenexpr", at, ZeroTok, <<x.node>>), consume(x.src))
    [] peek(src) = "tlbrack" ->
         LET at == pos(src)
             els == parserCall("parseElements", <<consume(src), <<>>>>)
         IN  IF els.err # "" THEN els
             ELSE IF peek(els.src) = "tillegal"
             THEN Fail("expected ] at end of array", els.src)
             ELSE Ok(Node("karraylit", at, ZeroTok, els.node.list), consume(els.src))
    [] peek(src) = "tfunc" ->
         LET at == pos(src)
             s1 == consume(src)
         IN  IF peek(s1) # "tlparen"
             THEN Fail("expected ( at beginning of parameter list", s1)
             ELSE
               LET params == parserCall("parseParams", <<consume(s1), <<>>>>)
               IN  IF params.err # "" THEN params
                   ELSE IF peek(params.src) = "tillegal"
                   THEN Fail("expected ) at end of parameter list", params.src)
                   ELSE
                     LET s2 == consume(params.src)
                     IN  IF peek(s2) # "tlbrace"
                         THEN Fail("expected { at beginning of function body", s2)
                         ELSE LET body == parserCall("parseBlock", <<s2>>)
                              IN  IF body.err # "" THEN body
                                  ELSE Ok(Node("kfunclit", at, ZeroTok,
                                               Append(params.node.list, body.node)),
                                          body.src)
    [] OTHER -> Fail("bad expression", src)

\* A call of one of the parser's functions from another: fn names the
\* function and a holds its arguments.
parserCall(fn, a) ==
  CASE fn = "parseStmt" -> parseStmt(a[1])
    [] fn = "parseBlock" -> parseBlock(a[1])
    [] fn = "parseBlockStmts" -> parseBlockStmts(a[1], a[2])
    [] fn = "parseExpr" -> parseExpr(a[1])
    [] fn = "parseBinaryExpr" -> parseBinaryExpr(a[1], a[2])
    [] fn = "parseBinaryLoop" -> parseBinaryLoop(a[1], a[2], a[3])
    [] fn = "parseUnaryExpr" -> parseUnaryExpr(a[1])
    [] fn = "parsePrimaryExpr" -> parsePrimaryExpr(a[1])
    [] fn = "parsePostfix" -> parsePostfix(a[1], a[2])
    [] fn = "parseCallArgs" -> parseCallArgs(a[1], a[2])
    [] fn = "parseOperand" -> parseOperand(a[1])
    [] fn = "parseElements" -> parseElements(a[1], a[2])
    [] fn = "parseParams" -> parseParams(a[1], a[2])

(***************************************************************************)
(* Runtime values.  value.v is an int, a string, a bool, a *node or nil;   *)
(* value.m is a slice: a pointer into the heap of backing arrays and a     *)
(* length.  Copying a value copies the slice header and shares the backing *)
(* array.                                                                  *)
(***************************************************************************)
NilV == "nil"
NilSlice == [ptr |-> 0, len |-> 0]

\* value{}
ZeroValue == [typ |-> "verr", v |-> NilV, m |-> NilSlice]

Num(n) == [typ |-> "vnum", v |-> n, m |-> NilSlice]
Str(s) == [typ |-> "vstring", v |-> s, m |-> NilSlice]
Bool(b) == [typ |-> "vbool", v |-> b, m |-> NilSlice]
Func(nod) == [typ |-> "vfunc", v |-> nod, m |-> NilSlice]

\* The entries a slice header sees.
Entries(heap, m) == IF m.ptr = 0 THEN <<>> ELSE SubSeq(heap[m.ptr], 1, m.len)

\* reflect.DeepEqual on two values.
RECURSIVE DeepEqual(_, _, _)
DeepEqual(heap, v1, v2) ==
  /\ v1.typ = v2.typ
  /\ v1.v = v2.v
  /\ (v1.m.ptr = 0) = (v2.m.ptr = 0)
  /\ v1.m.len = v2.m.len
  /\ \/ v1.m.ptr = v2.m.ptr
     \/ LET e1 == Entries(heap, v1.m)
            e2 == Entries(heap, v2.m)
        IN  \A i \in 1..v1.m.len :
              DeepEqual(heap, e1[i].k, e2[i].k) /\ DeepEqual(heap, e1[i].v, e2[i].v)

eq(heap, v1, v2) ==
  IF v1.typ = "vfunc" /\ v2.typ = "vfunc" THEN v1.v = v2.v
  ELSE DeepEqual(heap, v1, v2)

SetMin(S) == CHOOSE x \in S : \A y \in S : x <= y

\* The indices of the entries whose key equals k, scanning val.m.
Hits(heap, val, k) ==
  LET es == Entries(heap, val.m)
  IN  {i \in 1..Len(es) : eq(heap, k, es[i].k)}

\* value.get
get(heap, val, k) ==
  LET hit == Hits(heap, val, k)
  IN  IF hit # {} THEN Entries(heap, val.m)[SetMin(hit)].v ELSE ZeroValue

\* value.set on the value val: the heap and val afterwards.  An existing key
\* is overwritten in the shared backing array; append gives val a new slice
\* header (modelled with a backing array of its own: the element appended is
\* visible through the new header only).
set(heap, val, k, v) ==
  LET hit == Hits(heap, val, k)
  IN  IF hit # {}
      THEN [heap |-> [heap EXCEPT ![val.m.ptr][SetMin(hit)].v = v], val |-> val]
      ELSE [heap |-> Append(heap, Append(Entries(heap, val.m), [k |-> k, v |-> v])),
            val |-> [val EXCEPT !.m = [ptr |-> Len(heap) + 1, len |-> val.m.len + 1]]]

\* strconv.Itoa, as fmt.Sprint prints an int.
Digits == <<"0", "1", "2", "3", "4", "5", "6", "7", "8", "9">>

RECURSIVE Itoa(_)
Itoa(n) ==
  IF n < 0 THEN "-" \o Itoa(-n)
  ELSE IF n < 10 THEN Digits[n + 1]
  ELSE Itoa(n \div 10) \o Digits[(n % 10) + 1]

\* value.String
RECURSIVE String(_, _), joinEntries(_, _, _)
joinEntries(heap, es, i) ==
  IF i > Len(es) THEN ""
  ELSE String(heap, es[i].k) \o ":" \o String(heap, es[i].v)
         \o (IF i # Len(es) THEN "," ELSE "") \o joinEntries(heap, es, i + 1)

String(heap, v) ==
  CASE v.typ = "vnum" -> Itoa(v.v)
    [] v.typ = "vstring" -> v.v
    [] v.typ = "vbool" -> IF v.v THEN "true" ELSE "false"
    [] v.typ = "varray" -> "[" \o joinEntries(heap, Entries(heap, v.m), 1) \o "]"
    [] OTHER -> v.typ

\* Go's integer division and remainder truncate toward zero.
Abs(n) == IF n < 0 THEN -n ELSE n
Quo(a, b) == IF (a < 0) = (b < 0) THEN Abs(a) \div Abs(b) ELSE -(Abs(a) \div Abs(b))
Rem(a, b) == a - b * Quo(a, b)

(***************************************************************************)
(* Scopes.  envs is the heap of env structs, indexed by their address; 0   *)
(* is the nil *env.                                                        *)
(***************************************************************************)
EmptyMap == [n \in {} |-> ZeroValue]

MapSet(m, k, v) == [n \in DOMAIN m \cup {k} |-> IF n = k THEN v ELSE m[n]]

\* newEnv as it would be if every new scope hung off the file's scope.
newEnvGlobal(parent) == [parent |-> IF parent = 0 THEN 0 ELSE 1, m |-> EmptyMap]

newEnv(parent) == [parent |-> parent, m |-> EmptyMap]

RECURSIVE lookup(_, _, _)
lookup(envs, e, k) ==
  IF e = 0 THEN 0
  ELSE IF k \in DOMAIN envs[e].m THEN e
  ELSE lookup(envs, envs[e].parent, k)

(***************************************************************************)
(* The interpreter.  st is the interp struct (env, err, ret) with what the *)
(* evaluation reads and writes besides: the two heaps, whether the         *)
(* goroutine panicked, whether a loop ran past MaxLoop, the order in which *)
(* the build evaluates the two sides of line 75's assignment, the value    *)
(* the last call returned (val), and log, the history of the run: every    *)
(* error stored in interp.err, every line printed, every call's scope,     *)
(* every argument evaluation, and every write of a name into a scope (by   *)
(* an assignment: "bind", by a call: "param"), in order.                   *)
(***************************************************************************)
NewInterp ==
  [env |-> 0, envs |-> <<>>, err |-> "", ret |-> ZeroValue, heap |-> <<>>,
   panic |-> "", hung |-> FALSE, lhsFirst |-> FALSE, val |-> ZeroValue,
   log |-> <<>>]

V(st, val) == [st EXCEPT !.val = val]

Emit(st, e) == [st EXCEPT !.log = Append(@, e)]

\* interp.err = fmt.Errorf(...)
SetErr(st, msg) == Emit([st EXCEPT !.err = msg], [ev |-> "err", msg |-> msg])

\* A run-time panic nothing recovers: the process dies.
Panic(st, msg) == [st EXCEPT !.panic = msg, !.val = ZeroValue]

Stopped(st) == st.panic # "" \/ st.hung

beginScope(st) ==
  IF st.err # "" THEN st
  ELSE [st EXCEPT !.envs = Append(@, newEnv(st.env)), !.env = Len(st.envs) + 1]

\* The scope left is garbage (no value refers to a scope), and is freed.
endScope(st) ==
  IF st.err # "" THEN st
  ELSE IF st.env = 0 THEN st
  ELSE [st EXCEPT !.env = st.envs[st.env].parent,
                  !.envs = IF st.env = Len(@) THEN SubSeq(@, 1, Len(@) - 1) ELSE @]

\* isTrue as it would be if every value but false and value{} were true.
isTrueTruthy(st, v) ==
  IF st.err # "" THEN FALSE
  ELSE IF v.typ = "vbool" THEN v.v ELSE v.typ # "verr"

isTrue(st, v) ==
  IF st.err # "" THEN FALSE
  ELSE v.typ = "vbool" /\ v.v

\* The switch of kbinaryexpr on operands l and r of one type.
binaryOp(st, op, l, r) ==
  CASE op = "tplus" /\ l.typ = "vstring" -> V(st, Str(l.v \o r.v))
    [] op = "tplus" /\ l.typ = "vnum" -> V(st, Num(l.v + r.v))
    [] op = "tsub" /\ l.typ = "vnum" -> V(st, Num(l.v - r.v))
    [] op = "tmul" /\ l.typ = "vnum" -> V(st, Num(l.v * r.v))
    [] op = "tquo" /\ l.typ = "vnum" ->
         IF r.v = 0 THEN V(SetErr(st, "runtime error: integer divide by zero"), ZeroValue)
         ELSE V(st, Num(Quo(l.v, r.v)))
    [] op = "trem" /\ l.typ = "vnum" ->
         IF r.v = 0 THEN V(SetErr(st, "runtime error: integer divide by zero"), ZeroValue)
         ELSE V(st, Num(Rem(l.v, r.v)))
    [] op = "tland" /\ l.typ = "vbool" -> V(st, Bool(l.v /\ r.v))
    [] op = "tlor" /\ l.typ = "vbool" -> V(st, Bool(l.v \/ r.v))
    [] op = "teql" /\ l.typ \in {"vnum", "vbool", "vstring"} -> V(st, Bool(l.v = r.v))
    [] op = "tlss" /\ l.typ = "vnum" -> V(st, Bool(l.v < r.v))
    [] op = "tgtr" /\ l.typ = "vnum" -> V(st, Bool(l.v > r.v))
    [] op = "tneq" /\ l.typ \in {"vnum", "vbool", "vstring"} -> V(st, Bool(l.v # r.v))
    [] op = "tleq" /\ l.typ = "vnum" -> V(st, Bool(l.v <= r.v))
    [] op = "tgeq" /\ l.typ = "vnum" -> V(st, Bool(l.v >= r.v))
    [] OTHER -> V(SetErr(st, "invalid op " \o op), ZeroValue)

\* The switch of kunaryexpr on the operand's value.
unaryOp(st, op, val) ==
  CASE op = "tsub" ->
         IF val.typ # "vnum" THEN Panic(st, "interface conversion: not int")
         ELSE V(st, [val EXCEPT !.v = -val.v])
    [] op = "tnot" ->
         IF val.typ # "vbool" THEN Panic(st, "interface conversion: not bool")
         ELSE V(st, [val EXCEPT !.v = ~val.v])
    [] OTHER -> V(st, val)

\* case kident of setValue as it would be without the lookup: the name is
\* always written into the current scope.
setIdentCurrent(st, name, v) ==
  LET to == st.env
  IN  IF to = 0 THEN Panic(st, "nil pointer dereference")
      ELSE LET after == [st.envs EXCEPT ![to].m = MapSet(@, name, v)]
           IN  Emit([st EXCEPT !.envs = after],
                    [ev |-> "bind", name |-> name, cur |-> st.env, to |-> to, v |-> v,
                     before |-> st.envs, after |-> after])

\* case kident of setValue: the scope written is lookup's, else interp.env.
setIdent(st, name, v) ==
  LET e == lookup(st.envs, st.env, name)
      to == IF e # 0 THEN e ELSE st.env
  IN  IF to = 0 THEN Panic(st, "nil pointer dereference")
      ELSE LET after == [st.envs EXCEPT ![to].m = MapSet(@, name, v)]
           IN  Emit([st EXCEPT !.envs = after],
                    [ev |-> "bind", name |-> name, cur |-> st.env, to |-> to, v |-> v,
                     before |-> st.envs, after |-> after])

\* fmt.Println(v): one line on standard output.
println(st, v) ==
  Emit(st, [ev |-> "print", text |-> String(st.heap, v), err |-> st.err])

RECURSIVE evalRvalue(_, _), evalStmt(_, _), evalStmts(_, _, _), evalBlock(_, _),
          evalFuncBody(_, _, _, _), bindParams(_, _, _, _, _), setValue(_, _, _),
          arrayLit(_, _, _, _), whileLoop(_, _, _),
          interpCall(_, _)

\* The statement loops of evalBlock and evalFuncBody, from list[i] on.
evalStmts(st, list, i) ==
  IF i > Len(list) THEN st
  ELSE interpCall("evalStmts", <<evalStmt(st, list[i]), list, i + 1>>)

evalBlock(st, node) ==
  IF Stopped(st) THEN st
  ELSE IF st.err # "" THEN st
  ELSE LET s == interpCall("evalStmts", <<beginScope(st), node.list, 1>>)
       IN  IF Stopped(s) THEN s ELSE endScope(s)

\* The parameter loop of evalFuncBody, from params[i] on; caller is the
\* scope the call was made in.
bindParams(st, params, args, i, caller) ==
  IF Stopped(st) \/ i > Len(params) THEN st
  ELSE
    LET a == interpCall("evalRvalue", <<Emit(st, [ev |-> "arg", caller |-> caller, env |-> st.env,
                                  node |-> args[i], envs |-> st.envs]),
                        args[i]>>)
        to == IF st.lhsFirst THEN st.env ELSE a.env
    IN  IF Stopped(a) THEN a
        ELSE IF to = 0 THEN Panic(a, "nil pointer dereference")
        ELSE interpCall("bindParams", <<Emit([a EXCEPT !.envs[to].m = MapSet(@, params[i].value.text, a.val)],
                             [ev |-> "param", name |-> params[i].value.text, to |-> to,
                              v |-> a.val]),
                        params, args, i + 1, caller>>)

evalFuncBody(st, params, args, body) ==
  LET s0 == beginScope(st)
      s1 == IF st.err # "" THEN s0
            ELSE Emit(s0, [ev |-> "call", caller |-> st.env, scope |-> s0.env,
                           parent |-> s0.envs[s0.env].parent])
  IN  IF Len(params) # Len(args)
      THEN V(endScope([SetErr(s1, "len(params) != len(args)") EXCEPT !.ret = ZeroValue]),
             ZeroValue)
      ELSE LET s2 == interpCall("evalStmts", <<bindParams(s1, params, args, 1, st.env), body.list, 1>>)
           IN  IF Stopped(s2) THEN s2
               ELSE V(endScope([s2 EXCEPT !.ret = ZeroValue]), s2.ret)

\* The element loop of case karraylit, from list[i] on, with v the array so
\* far; the keys are the 0-based i - 1.
arrayLit(st, list, i, v) ==
  IF Stopped(st) THEN st
  ELSE IF i > Len(list) THEN V(st, v)
  ELSE
    LET e == list[i]
    IN  CASE e.kind = "knumlit" ->
               IF ~isnum(e.value.text)
               THEN interpCall("arrayLit", <<SetErr(st, "strconv.Atoi: parsing"), list, i + 1, v>>)
               ELSE LET r == set(st.heap, v, Num(i - 1), Num(AtoiTable[e.value.text]))
                    IN  interpCall("arrayLit", <<[st EXCEPT !.heap = r.heap], list, i + 1, r.val>>)
          [] e.kind = "kstringlit" ->
               LET r == set(st.heap, v, Num(i - 1), Str(e.value.text))
               IN  interpCall("arrayLit", <<[st EXCEPT !.heap = r.heap], list, i + 1, r.val>>)
          [] e.kind \notin {"knumlit", "kstringlit"} /\ Len(e.list) = 1 ->
               LET x == interpCall("evalRvalue", <<st, e.list[1]>>)
                   r == set(x.heap, v, Num(i - 1), x.val)
               IN  IF Stopped(x) THEN x
                   ELSE interpCall("arrayLit", <<[x EXCEPT !.heap = r.heap], list, i + 1, r.val>>)
          [] OTHER ->
               IF Len(e.list) = 0 THEN Panic(st, "index out of range [0] with length 0")
               ELSE
                 LET k == interpCall("evalRvalue", <<st, e.list[1]>>)
                     x == interpCall("evalRvalue", <<k, e.list[2]>>)
                     r == set(x.heap, v, k.val, x.val)
                 IN  IF Stopped(k) THEN k
                     ELSE IF Stopped(x) THEN x
                     ELSE interpCall("arrayLit", <<[x EXCEPT !.heap = r.heap], list, i + 1, r.val>>)

evalRvalue(st, nod) ==
  IF Stopped(st) THEN st
  ELSE IF st.err # "" THEN V(st, ZeroValue)
  ELSE
    CASE nod.kind = "nil" -> Panic(st, "nil pointer dereference")
      [] nod.kind = "karraylit" ->
           interpCall("arrayLit", <<st, nod.list, 1, [typ |-> "varray", v |-> NilV, m |-> NilSlice]>>)
      [] nod.kind = "knumlit" ->
           IF isnum(nod.value.text) THEN V(st, Num(AtoiTable[nod.value.text]))
           ELSE V(SetErr(st, "strconv.Atoi: parsing"), Num(0))
      [] nod.kind = "kstringlit" -> V(st, Str(nod.value.text))
      [] nod.kind = "kfunclit" -> V(st, Func(nod))
      [] nod.kind = "kident" ->
           IF nod.value.text = "true" THEN V(st, Bool(TRUE))
           ELSE IF nod.value.text = "false" THEN V(st, Bool(FALSE))
           ELSE LET e == lookup(st.envs, st.env, nod.value.text)
                IN  IF e # 0 THEN V(st, st.envs[e].m[nod.value.text])
                    ELSE V(SetErr(st, "no identifier named " \o nod.value.text \o " exists"),
                           ZeroValue)
      [] nod.kind = "kunaryexpr" ->
           LET x == interpCall("evalRvalue", <<st, nod.list[1]>>)
           IN  IF Stopped(x) THEN x ELSE unaryOp(x, nod.value.ttype, x.val)
      [] nod.kind = "kbinaryexpr" ->
           LET l == interpCall("evalRvalue", <<st, nod.list[1]>>)
               r == interpCall("evalRvalue", <<l, nod.list[2]>>)
           IN  IF Stopped(l) THEN l
               ELSE IF Stopped(r) THEN r
               ELSE IF l.val.typ # r.val.typ
               THEN V(SetErr(r, "type mismatch in binaryexpr " \o l.val.typ \o " != "
                                  \o r.val.typ), ZeroValue)
               ELSE binaryOp(r, nod.value.ttype, l.val, r.val)
      [] nod.kind \in {"kindexexpr", "kselectorexpr"} ->
           LET m == interpCall("evalRvalue", <<st, nod.list[1]>>)
               i == interpCall("evalRvalue", <<m, nod.list[2]>>)
           IN  IF Stopped(m) THEN m
               ELSE IF Stopped(i) THEN i
               ELSE V(i, get(i.heap, m.val, i.val))
      [] nod.kind = "kparenexpr" -> interpCall("evalRvalue", <<st, nod.list[1]>>)
      [] nod.kind = "kcallexpr" ->
           IF nod.list[1].value.text = "print"
           THEN IF Len(nod.list) < 2
                THEN Panic(st, "index out of range [1] with length 1")
                ELSE LET a == interpCall("evalRvalue", <<st, nod.list[2]>>)
                     IN  IF Stopped(a) THEN a ELSE V(println(a, a.val), ZeroValue)
           ELSE LET c == interpCall("evalRvalue", <<st, nod.list[1]>>)
                IN  IF Stopped(c) THEN c
                    ELSE IF c.val.typ # "vfunc"
                    THEN Panic(c, "interface conversion: not *node")
                    ELSE LET f == c.val.v
                         IN  interpCall("evalFuncBody", <<c, SubSeq(f.list, 1, Len(f.list) - 1),
                                          Tail(nod.list), f.list[Len(f.list)]>>)
      [] OTHER -> V(st, ZeroValue)

setValue(st, node, v) ==
  IF Stopped(st) THEN st
  ELSE IF st.err # "" THEN st
  ELSE
    CASE node.kind \in {"karraylit", "knumlit", "kstringlit", "kparenexpr", "kfunclit",
                        "kunaryexpr", "kbinaryexpr", "kcallexpr"} ->
           SetErr(st, "cannot assign to " \o node.kind)
      [] node.kind = "kident" -> setIdent(st, node.value.text, v)
      [] node.kind \in {"kindexexpr", "kselectorexpr"} ->
           LET m == interpCall("evalRvalue", <<st, node.list[1]>>)
               i == interpCall("evalRvalue", <<m, node.list[2]>>)
           IN  IF Stopped(m) THEN m
               ELSE IF Stopped(i) THEN i
               ELSE [i EXCEPT !.heap = set(i.heap, m.val, i.val, v).heap]
      [] OTHER -> st

\* The for loop of case kwhilestmt, with n more iterations allowed.
whileLoop(st, node, n) ==
  LET c == interpCall("evalRvalue", <<st, node.list[1]>>)
  IN  IF Stopped(c) THEN c
      ELSE IF isTrue(c, c.val)
      THEN IF n = 0 THEN [c EXCEPT !.hung = TRUE]
           ELSE interpCall("whileLoop", <<evalBlock(c, node.list[2]), node, n - 1>>)
      ELSE c

evalStmt(st, node) ==
  IF Stopped(st) THEN st
  ELSE IF st.err # "" THEN st
  ELSE
    CASE node.kind = "kassignstmt" ->
           LET r == interpCall("evalRvalue", <<st, node.list[2]>>)
           IN  IF Stopped(r) THEN r ELSE interpCall("setValue", <<r, node.list[1], r.val>>)
      [] node.kind = "kblockstmt" -> interpCall("evalBlock", <<st, node>>)
      [] node.kind = "kifstmt" ->
           LET c == interpCall("evalRvalue", <<st, node.list[1]>>)
           IN  IF Stopped(c) THEN c
               ELSE IF isTrue(c, c.val) THEN interpCall("evalBlock", <<c, node.list[2]>>)
               ELSE IF Len(node.list) = 3 THEN interpCall("evalStmt", <<c, node.list[3]>>)
               ELSE c
      [] node.kind = "kexprstmt" -> interpCall("evalRvalue", <<st, node.list[1]>>)
      [] node.kind = "kwhilestmt" -> interpCall("whileLoop", <<st, node, MaxLoop>>)
      [] node.kind = "kreturnstmt" ->
           LET r == interpCall("evalRvalue", <<st, node.list[1]>>)
           IN  IF Stopped(r) THEN r ELSE [r EXCEPT !.ret = r.val]
      [] OTHER -> st

\* A call of one of the interpreter's functions from another: fn names the
\* function and a holds its arguments.
interpCall(fn, a) ==
  CASE fn = "evalRvalue" -> evalRvalue(a[1], a[2])
    [] fn = "evalStmt" -> evalStmt(a[1], a[2])
    [] fn = "evalStmts" -> evalStmts(a[1], a[2], a[3])
    [] fn = "evalBlock" -> evalBlock(a[1], a[2])
    [] fn = "evalFuncBody" -> evalFuncBody(a[1], a[2], a[3], a[4])
    [] fn = "bindParams" -> bindParams(a[1], a[2], a[3], a[4], a[5])
    [] fn = "setValue" -> setValue(a[1], a[2], a[3])
    [] fn = "arrayLit" -> arrayLit(a[1], a[2], a[3], a[4])
    [] fn = "whileLoop" -> whileLoop(a[1], a[2], a[3])

(***************************************************************************)
(* The sources the model runs.                                             *)
(***************************************************************************)
\* Sources written out, one per scenario; lexemes are separated by white
\* space except where a compound operator is spelled by two adjacent ones.
ProgShadow ==
  Spaced(<<"a", "=", "1", ";",
           "f", "=", "func", "(", "a", ",", "b", ")", "{", "return", "b", ";", "}", ";",
           "print", "(", "f", "(", "2", ",", "a", ")", ")", ";">>)

ProgDynamic ==
  Spaced(<<"f", "=", "0", ";",
           "{", "y", "=", "5", ";",
                "f", "=", "func", "(", ")", "{", "return", "y", ";", "}", ";", "}", ";",
           "{", "y", "=", "1", ";", "print", "(", "f", "(", ")", ")", ";", "}", ";",
           "{", "y", "=", "2", ";", "print", "(", "f", "(", ")", ")", ";", "}", ";">>)

ProgScopes ==
  Spaced(<<"x", "=", "1", ";",
           "{", "x", "=", "2", ";", "z", "=", "3", ";",
                "{", "z", "=", "5", ";", "x", "=", "7", ";", "y", "=", "0", ";", "}", ";",
                "print", "(", "z", ")", ";", "}", ";",
           "print", "(", "x", ")", ";",
           "print", "(", "z", ")", ";">>)

ProgArray ==
  Spaced(<<"a", "=", "[", "10", ",", "20", ",", "5", ":", "99", "]", ";",
           "b", "=", "a", ";",
           "a", "[", "1", "]", "=", "7", ";",
           "print", "(", "a", "[", "1", "]", ")", ";",
           "print", "(", "b", ")", ";",
           "a", "[", "3", "]", "=", "2", ";",
           "print", "(", "a", "[", "3", "]", ")", ";">>)

ProgLiteral ==
  Spaced(<<"a", "=", "1", ";",
           "print", "(", "[", "(", "a", ")", ",", "\"s\"", ",", "a", "+", "2", "]", ")", ";",
           "print", "(", "[", "-", "5", "]", ")", ";",
           "print", "(", "[", "a", "]", ")", ";">>)

ProgDivide ==
  Spaced(<<"print", "(", "1", ")", ";",
           "print", "(", "5", "/", "0", ")", ";",
           "print", "(", "2", ")", ";">>)

ProgRemainder ==
  Spaced(<<"x", "=", "7", "%", "2", "+", "5", "%", "0", ";", "print", "(", "x", ")", ";">>)

ProgOperators ==
  Spaced(<<"print", "(", "\"s\"", "<", "\"t\"", ")", ";">>)

ProgArrayEq ==
  Spaced(<<"print", "(", "[", "1", "]">>) \o <<"=", "=", " ">>
    \o Spaced(<<"[", "1", "]", ")", ";">>)

ProgNegString == Spaced(<<"x", "=", "-", "\"s\"", ";", "print", "(", "x", ")", ";">>)

ProgNotNumber == Spaced(<<"x", "=", "!", "1", ";">>)

ProgLoop ==
  Spaced(<<"i", "=", "0", ";", "while", "i", "<", "2", "{", "i", "=", "i", "+", "1", ";",
           "}", "print", "(", "i", ")", ";",
           "while", "i", "{", "print", "(", "i", ")", ";", "}",
           "if", "\"s\"", "{", "print", "(", "1", ")", ";", "}", "else", "if", "[", "]",
           "{", "print", "(", "2", ")", ";", "}", "else", "{", "print", "(", "3", ")", ";",
           "}", ";",
           "if", "print", "(", "0", ")", "{", "i", "=", "5", ";", "}", ";",
           "while", "true", "{", "}">>)

ProgReturn ==
  Spaced(<<"f", "=", "func", "(", ")", "{", "return", "7", ";", "}", ";",
           "print", "(", "f", "(", ")", ")", ";",
           "g", "=", "func", "(", ")", "{", "return", ";", "}", ";",
           "print", "(", "g", "(", ")", ")", ";">>)

Programs ==
  {ProgShadow, ProgDynamic, ProgScopes, ProgArray, ProgLiteral, ProgDivide,
   ProgRemainder, ProgOperators, ProgArrayEq, ProgNegString, ProgNotNumber, ProgLoop,
   ProgReturn}

\* Statements the model strings together, up to MaxStmts of them.
MaxStmts == 2

StmtPool ==
  {Spaced(<<"x", "=", "1", ";">>),
   Spaced(<<"{", "x", "=", "2", ";", "z", "=", "x", ";", "}", ";">>),
   Spaced(<<"f", "=", "func", "(", "x", ")", "{", "y", "=", "x", "+", "z", ";",
            "return", "y", ";", "}", ";">>),
   Spaced(<<"{", "z", "=", "3", ";", "print", "(", "f", "(", "z", ")", ")", ";", "}", ";">>),
   Spaced(<<"if", "x", "{", "x", "=", "true", ";", "}", "else", "{", "z", "=", "x", ";",
            "}", ";">>),
   Spaced(<<"while", "x", "{", "print", "(", "x", ")", ";", "x", "=", "false", ";", "}">>),
   Spaced(<<"print", "(", "f", "(", "z", "/", "0", ")", ")", ";">>),
   Spaced(<<"x", "=", "[", "x", ":", "1", "]", ";">>)}

RECURSIVE Concat(_)
Concat(ss) == IF ss = <<>> THEN <<>> ELSE Head(ss) \o Concat(Tail(ss))

SeqsUpTo(S, n) == UNION {[1..k -> S] : k \in 0..n}

\* The lexemes of the short sources: every sequence of up to MaxToks of them.
Alphabet == {"x", "1", "=", ";", "{", "}", "(", ")", "-", "print"}

\* The lexemes of the sources written with and without white space between
\* the tokens; the scanner reads a run of letters and digits as one token, so
\* no two of them stand side by side.
OperatorAlphabet == {"x", "1", "=", "!", "<", "&", "|", " "}

Unspaced ==
  {ls \in SeqsUpTo(OperatorAlphabet, MaxToks) :
     \A i \in 1..(Len(ls) - 1) : ~(ls[i] \in {"x", "1"} /\ ls[i + 1] \in {"x", "1"})}

\* x=1; and print(1==2); written without white space.
ProgUnspaced == <<"x", "=", "1", ";">>

ProgUnspacedEq == <<"print", "(", "1", "=", "=", "2", ")", ";">>

Sources ==
  Programs
    \cup {Concat(ss) : ss \in SeqsUpTo(StmtPool, MaxStmts)}
    \cup {Spaced(ls) : ls \in SeqsUpTo(Alphabet, MaxToks)}
    \cup Unspaced
    \cup {ProgUnspaced, ProgUnspacedEq}

(***************************************************************************)
(* main(): tokenize, parseFile, evalBlock.                                 *)
(***************************************************************************)
VARIABLES
  text,     \* the source file
  stage,    \* where main() is: "lex", "parse", "eval", "exit"
  p,        \* parser.src, the tokens not yet consumed
  stmts,    \* the statements parseFile has collected
  pc,       \* evalBlock's index into the file node's statements
  interp,   \* the interpreter (see NewInterp)
  exit      \* how the process ended: "" while it runs

vars == <<text, stage, p, stmts, pc, interp, exit>>

Init ==
  /\ text \in Sources
  /\ stage = "lex"
  /\ p = <<>>
  /\ stmts = <<>>
  /\ pc = 0
  /\ interp = NewInterp
  /\ exit = ""

\* tokens, err := tokenize(name, f); exitf on an error.
Tokenize ==
  /\ stage = "lex"
  /\ LET r == tokenize(Scan(text))
     IN  IF r.err # ""
         THEN stage' = "exit" /\ exit' = "lexical error" /\ p' = p
         ELSE stage' = "parse" /\ exit' = exit /\ p' = r.tokens
  /\ UNCHANGED <<text, stmts, pc, interp>>

\* One iteration of parseFile's loop; exitf on a syntax error.
ParseStmt ==
  /\ stage = "parse"
  /\ Len(p) > 0
  /\ LET s == parseStmt(p)
     IN  IF s.err # ""
         THEN stage' = "exit" /\ exit' = "syntax error" /\ p' = s.src /\ stmts' = stmts
         ELSE stage' = stage /\ exit' = exit /\ p' = s.src /\ stmts' = Append(stmts, s.node)
  /\ UNCHANGED <<text, pc, interp>>

\* parseFile returns the file node; evalBlock(af) begins its scope.
BeginEval ==
  /\ stage = "parse"
  /\ Len(p) = 0
  /\ stage' = "eval"
  /\ interp' = beginScope(NewInterp)
  /\ pc' = 1
  /\ UNCHANGED <<text, p, stmts, exit>>

\* One iteration of evalBlock's loop over the file's statements.
EvalStmt ==
  /\ stage = "eval"
  /\ ~Stopped(interp)
  /\ pc <= Len(stmts)
  /\ \E order \in BOOLEAN :
       interp' = [evalStmt([interp EXCEPT !.lhsFirst = order], stmts[pc])
                    EXCEPT !.lhsFirst = FALSE, !.val = ZeroValue]
  /\ pc' = pc + 1
  /\ UNCHANGED <<text, stage, p, stmts, exit>>

\* evalBlock's deferred endScope, then main's check of interp.err.
EndEval ==
  /\ stage = "eval"
  /\ ~Stopped(interp)
  /\ pc > Len(stmts)
  /\ interp' = endScope(interp)
  /\ stage' = "exit"
  /\ exit' = IF interp.err # "" THEN "fatal" ELSE "ok"
  /\ UNCHANGED <<text, p, stmts, pc>>

\* An unrecovered panic ends the process.
Crash ==
  /\ stage = "eval"
  /\ interp.panic # ""
  /\ stage' = "exit"
  /\ exit' = "panic"
  /\ UNCHANGED <<text, p, stmts, pc, interp>>

Next == Tokenize \/ ParseStmt \/ BeginEval \/ EvalStmt \/ EndEval \/ Crash

Spec == Init /\ [][Next]_vars

\* The lines printed so far.
Output == SelectSeq(interp.log, LAMBDA e : e.ev = "print")

Lines == [i \in 1..Len(Output) |-> Output[i].text]

\* The positions of the log's events of one kind.
Events(log, kind) == {i \in 1..Len(log) : log[i].ev = kind}

(***************************************************************************)
(* The claims.                                                             *)
(***************************************************************************)

\* C1: once the error register has been set during a run it keeps exactly
\* that first error: nothing evaluated later (the rest of the enclosing binary
\* expression, call or block included) stores another error, and nothing
\* entered later writes a name into a scope.
C1_ErrorRegisterIsSticky ==
  LET log == interp.log
      errs == Events(log, "err")
  IN  errs # {} =>
        /\ interp.err = log[SetMin(errs)].msg
        /\ \A j \in (SetMin(errs) + 1)..Len(log) : log[j].ev \notin {"err", "bind", "param"}

\* C2: no line is printed after the error register has been set; in
\* particular none follows a division or remainder by zero, not even the
\* line of the print call whose argument failed.
C2_NoPrintAfterError ==
  LET log == interp.log
  IN  \A i \in Events(log, "err") : \A j \in Events(log, "print") : j < i

\* The identifiers an expression looks up when it is evaluated (a func
\* literal looks up none, and the callee print is not looked up).
RECURSIVE Idents(_)
Idents(nod) ==
  CASE nod.kind = "kident" -> {nod.value.text} \ {"true", "false"}
    [] nod.kind \in {"kfunclit", "nil"} -> {}
    [] nod.kind = "kcallexpr" /\ nod.list[1].value.text = "print" ->
         UNION {Idents(nod.list[i]) : i \in 2..Len(nod.list)}
    [] OTHER -> UNION {Idents(nod.list[i]) : i \in 1..Len(nod.list)}

\* C3: every argument of a call is evaluated in the caller's scope: each
\* identifier of the argument resolves to the scope that binds it at the call
\* site, never to the callee's new scope or a parameter bound from an earlier
\* argument.
C3_ArgumentsResolveInCallerScope ==
  \A i \in Events(interp.log, "arg") :
    LET e == interp.log[i]
    IN  \A n \in Idents(e.node) : lookup(e.envs, e.env, n) = lookup(e.envs, e.caller, n)

\* C4: the scope created for a call has the scope current at the call site
\* as its parent, so a free identifier of the body resolves to the caller's
\* binding: ProgDynamic calls one function value from two blocks that bind y
\* to 1 and to 2 (the literal was evaluated where y was 5) and prints 1, 2.
C4_CallScopeParentIsCallSite ==
  /\ \A i \in Events(interp.log, "call") : interp.log[i].parent = interp.log[i].caller
  /\ (text = ProgDynamic /\ exit # "") => (exit = "ok" /\ Lines = <<"1", "2">>)

C4_Witness ==
  /\ text = ProgDynamic
  /\ exit = "ok"
  /\ Cardinality(Events(interp.log, "call")) = 2
  /\ \A i \in Events(interp.log, "call") : interp.log[i].caller = 2

\* The scopes from e outward.
RECURSIVE Chain(_, _)
Chain(envs, e) == IF e = 0 THEN <<>> ELSE <<e>> \o Chain(envs, envs[e].parent)

\* The nearest scope of the chain from cur that binds name; cur when none does.
NearestBinder(envs, cur, name) ==
  LET chain == Chain(envs, cur)
      binders == {k \in 1..Len(chain) : name \in DOMAIN envs[chain[k]].m}
  IN  IF binders = {} THEN cur ELSE chain[SetMin(binders)]

\* One assignment to an identifier wrote name |-> v into the nearest binder
\* (else the current scope) and nothing else.
BindOk(e) ==
  /\ e.to = NearestBinder(e.before, e.cur, e.name)
  /\ DOMAIN e.after = DOMAIN e.before
  /\ \A s \in DOMAIN e.before : s # e.to => e.after[s] = e.before[s]
  /\ e.after[e.to].parent = e.before[e.to].parent
  /\ DOMAIN e.after[e.to].m = DOMAIN e.before[e.to].m \cup {e.name}
  /\ \A n \in DOMAIN e.after[e.to].m :
       e.after[e.to].m[n] = IF n = e.name THEN e.v ELSE e.before[e.to].m[n]

\* The step that executes the block statement stmts[pc] without an error.
BlockStep ==
  /\ stage = "eval" /\ stage' = "eval" /\ pc' = pc + 1
  /\ stmts[pc].kind = "kblockstmt"
  /\ interp.err = "" /\ interp'.err = "" /\ ~Stopped(interp')

\* The value the step's last assignment to name n of scope s stored, or the
\* value n had before the step.
ValueAfter(s, n) ==
  LET new == {i \in (Len(interp.log) + 1)..Len(interp'.log) :
                /\ interp'.log[i].ev = "bind"
                /\ interp'.log[i].to = s
                /\ interp'.log[i].name = n}
  IN  IF new = {} THEN interp.envs[s].m[n]
      ELSE interp'.log[CHOOSE i \in new : \A j \in new : j <= i].v

\* C5: an assignment to an identifier writes the nearest scope of the chain
\* that binds the name and leaves every other scope unchanged, or binds the
\* name in the current scope when none does.  So after a block that ends
\* without an error the current scope is the one before the block, it binds
\* the names it bound before (a name first assigned inside is unbound), and a
\* name bound outside and assigned inside holds the last value assigned.
C5_AssignmentWritesNearestBinder ==
  [][/\ \A i \in Events(interp'.log, "bind") : BindOk(interp'.log[i])
     /\ BlockStep =>
          /\ interp'.env = interp.env
          /\ DOMAIN interp'.envs = DOMAIN interp.envs
          /\ \A s \in DOMAIN interp.envs :
               /\ interp'.envs[s].parent = interp.envs[s].parent
               /\ DOMAIN interp'.envs[s].m = DOMAIN interp.envs[s].m
               /\ \A n \in DOMAIN interp.envs[s].m : interp'.envs[s].m[n] = ValueAfter(s, n)
    ]_vars

C5_Witness ==
  /\ text = ProgScopes
  /\ stage = "eval" /\ pc = 3
  /\ interp.err = "" /\ interp.env = 1
  /\ DOMAIN interp.envs[1].m = {"x"}
  /\ interp.envs[1].m["x"] = Num(7)
  /\ \E i \in Events(interp.log, "bind") :
       interp.log[i].name = "x" /\ interp.log[i].cur = 3 /\ interp.log[i].to = 1
  /\ \E i \in Events(interp.log, "bind") :
       interp.log[i].name = "y" /\ interp.log[i].cur = 3 /\ interp.log[i].to = 3

\* The step that executes the assignment a[k] = v of stmts[pc], a an
\* identifier bound to an array, without an error.
IndexAssignStep ==
  /\ stage = "eval" /\ stage' = "eval" /\ pc' = pc + 1
  /\ stmts[pc].kind = "kassignstmt"
  /\ stmts[pc].list[1].kind = "kindexexpr"
  /\ stmts[pc].list[1].list[1].kind = "kident"
  /\ interp.err = "" /\ interp'.err = "" /\ ~Stopped(interp')
  /\ evalRvalue(interp, stmts[pc].list[1].list[1]).val.typ = "varray"

\* The entries of the array the identifier node a is bound to in state st.
EntriesOf(st, a) == LET r == evalRvalue(st, a) IN Entries(r.heap, r.val.m)

\* C6: after a[k] = v has executed without an error on a variable a holding
\* an array, reading a[k] yields v; a key that was present has its entry
\* overwritten in place, a key that was absent is appended as the last entry
\* of the array bound to a.
C6_IndexAssignmentIsReadBack ==
  [][IndexAssignStep =>
       LET lhs == stmts[pc].list[1]
           k   == evalRvalue(interp, lhs.list[2]).val
           v   == evalRvalue(interp, stmts[pc].list[2]).val
           old == EntriesOf(interp, lhs.list[1])
           new == EntriesOf(interp', lhs.list[1])
           at  == {i \in 1..Len(old) : old[i].k = k}
       IN  /\ evalRvalue(interp', lhs).val = v
           /\ new = IF at = {} THEN Append(old, [k |-> k, v |-> v])
                    ELSE [old EXCEPT ![SetMin(at)].v = v]
    ]_vars

\* The array literal the statement s evaluates first: the right-hand side of
\* an assignment or the argument of print.
LiteralOf(s) ==
  IF s.kind = "kassignstmt" /\ s.list[2].kind = "karraylit" THEN {s.list[2]}
  ELSE IF /\ s.kind = "kexprstmt" /\ s.list[1].kind = "kcallexpr"
          /\ Len(s.list[1].list) = 2 /\ s.list[1].list[2].kind = "karraylit"
       THEN {s.list[1].list[2]}
       ELSE {}

\* The element e evaluates in state st to a value.
Evaluates(st, e) == LET r == evalRvalue(st, e) IN ~Stopped(r) /\ r.err = ""

\* The text of the value of e in state st.
TextOf(st, e) == LET r == evalRvalue(st, e) IN String(r.heap, r.val)

\* The key and value, as text, the i-th element e of a literal is to be stored
\* under: its own key when written key: value, else its 0-based position.
ElementEntry(st, e, i) ==
  IF e.kind = "kkvexpr" THEN <<TextOf(st, e.list[1]), TextOf(st, e.list[2])>>
  ELSE <<Itoa(i - 1), TextOf(st, e)>>

\* C7: an array literal whose elements all evaluate yields an array whose
\* i-th entry is the i-th element: under its 0-based position i - 1 with the
\* value of the whole element when written without a key, under its evaluated
\* key when written key: value.
C7_ArrayLiteralKeysArePositional ==
  (stage = "eval" /\ pc <= Len(stmts) /\ interp.err = "" /\ ~Stopped(interp)) =>
    \A lit \in LiteralOf(stmts[pc]) :
      (\A i \in 1..Len(lit.list) :
         IF lit.list[i].kind = "kkvexpr"
         THEN Evaluates(interp, lit.list[i].list[1]) /\ Evaluates(interp, lit.list[i].list[2])
         ELSE Evaluates(interp, lit.list[i]))
      => LET r == evalRvalue(interp, lit)
             es == Entries(r.heap, r.val.m)
         IN  /\ ~Stopped(r) /\ r.err = ""
             /\ r.val.typ = "varray"
             /\ [i \in 1..Len(es) |-> <<String(r.heap, es[i].k), String(r.heap, es[i].v)>>]
                  = [i \in 1..Len(lit.list) |-> ElementEntry(interp, lit.list[i], i)]

\* The token that ended the statement the step parsed.
LastConsumed == p[Len(p) - Len(p')]

\* C8: the parser accepts a statement only if the statement is followed by a
\* ';', which it consumes, or the next token is ')' or ']'; followed by any
\* other token, or by the end of the input, the statement is a syntax error.
C8_StatementNeedsSemicolon ==
  [][(/\ stage = "parse" /\ stage' = "parse"
      /\ Len(stmts') = Len(stmts) + 1
      /\ stmts'[Len(stmts')].kind # "kemptystmt")
     => \/ LastConsumed.ttype = "tsemicolon"
        \/ (p' # <<>> /\ p'[1].ttype \in {"trparen", "trbrack"})
    ]_vars

\* The expression the statement s evaluates first, when it is an operator
\* application.
OperatorOf(s) ==
  LET e == IF s.kind = "kassignstmt" THEN s.list[2]
           ELSE IF s.kind = "kexprstmt" /\ s.list[1].kind = "kcallexpr" /\ Len(s.list[1].list) = 2
                THEN s.list[1].list[2]
                ELSE IF s.kind = "kexprstmt" THEN s.list[1] ELSE NilNode
  IN  IF e.kind \in {"kunaryexpr", "kbinaryexpr"} THEN {e} ELSE {}

\* The operand kinds the language defines the operators on.
UnaryDefined(op, typ) ==
  \/ op = "tsub" /\ typ = "vnum"
  \/ op = "tnot" /\ typ = "vbool"
  \/ op = "tplus"

BinaryDefined(op, l, r) ==
  /\ l = r
  /\ \/ op = "tplus" /\ l \in {"vnum", "vstring"}
     \/ op \in {"tsub", "tmul", "tquo", "trem", "tlss", "tgtr", "tleq", "tgeq"} /\ l = "vnum"
     \/ op \in {"tland", "tlor"} /\ l = "vbool"
     \/ op \in {"teql", "tneq"} /\ l \in {"vnum", "vbool", "vstring"}

\* C9: an operator applied to operands of kinds it is not defined on records
\* an evaluation error and yields the default value; the evaluation never
\* yields another value and never aborts the run.
C9_UndefinedOperatorRecordsError ==
  (stage = "eval" /\ pc <= Len(stmts) /\ interp.err = "" /\ ~Stopped(interp)) =>
    \A e \in OperatorOf(stmts[pc]) :
      (\A i \in 1..Len(e.list) : Evaluates(interp, e.list[i]))
      => LET x == evalRvalue(interp, e.list[1]).val.typ
             y == evalRvalue(interp, e.list[Len(e.list)]).val.typ
             r == evalRvalue(interp, e)
         IN  (IF e.kind = "kunaryexpr" THEN ~UnaryDefined(e.value.ttype, x)
              ELSE ~BinaryDefined(e.value.ttype, x, y))
             => /\ r.panic = ""
                /\ r.err # ""
                /\ r.val = ZeroValue

\* The step that executes the if or while statement stmts[pc].
ConditionStep ==
  /\ stage = "eval" /\ stage' = "eval" /\ pc' = pc + 1
  /\ stmts[pc].kind \in {"kifstmt", "kwhilestmt"}
  /\ interp.err = ""

\* The evaluation that ended in state c yielded, without an error, a value
\* that is not a boolean.
NonBoolean(c) == ~Stopped(c) /\ c.err = "" /\ c.val.typ # "vbool"

\* The state a statement leaves, less the registers a statement does not keep.
Settled(st) == [st EXCEPT !.lhsFirst = FALSE, !.val = ZeroValue]

\* The state after the if or while statement s whose condition, evaluated to
\* state c, is not a boolean: the body is skipped and the else branch, when
\* there is one, executed (by this same rule when it is another such if).
RECURSIVE SkipBody(_, _)
SkipBody(c, s) ==
  IF s.kind = "kwhilestmt" \/ Len(s.list) < 3 THEN c
  ELSE LET e == s.list[3]
           c2 == evalRvalue(c, e.list[1])
       IN  IF e.kind = "kifstmt" /\ NonBoolean(c2) THEN SkipBody(c2, e)
           ELSE evalStmt(c, e)

\* C10: an if or while statement whose condition evaluates to a value that
\* is not a boolean sets no error and runs no body: the state after it is the
\* state after the condition, or after the else branch when there is one.
C10_NonBooleanConditionIsFalse ==
  [][ConditionStep =>
       LET s == stmts[pc]
           c == evalRvalue(interp, s.list[1])
       IN  NonBoolean(c) =>
             \E order \in BOOLEAN :
               Settled(interp') = Settled(SkipBody([c EXCEPT !.lhsFirst = order], s))
    ]_vars

C10_Witness ==
  /\ text = ProgLoop
  /\ stage = "eval" /\ pc = 8
  /\ interp.err = "" /\ ~Stopped(interp)
  /\ Lines = <<"2", "3", "0">>
  /\ interp.envs[1].m["i"] = Num(2)

\* The second text of a pair the merge pass is to merge, after the first.
Qualifies(a, b) ==
  \/ b = "=" /\ a \in {"=", "!", "<", ">"}
  \/ b = "&" /\ a = "&"
  \/ b = "|" /\ a = "|"

\* The texts of the scanned tokens from the i-th on, every textually adjacent
\* qualifying pair merged into one text and every other token kept.
RECURSIVE MergePairs(_, _)
MergePairs(tokens, i) ==
  IF i > Len(tokens) THEN <<>>
  ELSE IF /\ i < Len(tokens)
          /\ tokens[i].pos = tokens[i + 1].pos - 1
          /\ Qualifies(tokens[i].text, tokens[i + 1].text)
       THEN <<tokens[i].text \o tokens[i + 1].text>> \o MergePairs(tokens, i + 2)
       ELSE <<tokens[i].text>> \o MergePairs(tokens, i + 1)

\* C11: the merge pass removes a token only as the second token of a pair it
\* merges into ==, !=, <=, >=, && or ||; every other token survives with its
\* text, in order, and every adjacent qualifying pair is merged.  So the
\* texts after the pass are the scanned texts with exactly those pairs joined.
C11_MergePassKeepsOtherTokens ==
  stage # "lex" =>
    LET merged == mergePass(Scan(text), 2)
    IN  [i \in 1..Len(merged) |-> merged[i].text] = MergePairs(Scan(text), 1)

\* The call the statement s evaluates first: the right-hand side of an
\* assignment or the argument of print, when it is a call of an identifier.
CallOf(s) ==
  LET e == IF s.kind = "kassignstmt" THEN s.list[2]
           ELSE IF s.kind = "kexprstmt" /\ s.list[1].kind = "kcallexpr" /\ Len(s.list[1].list) = 2
                THEN s.list[1].list[2]
                ELSE NilNode
  IN  IF e.kind = "kcallexpr" /\ e.list[1].kind = "kident" /\ e.list[1].value.text # "print"
      THEN {e} ELSE {}

\* The call e of state st is a call without arguments of a function without
\* parameters whose body is one return statement.
CallsReturn(st, e) ==
  LET f == evalRvalue(st, e.list[1])
  IN  /\ ~Stopped(f) /\ f.err = "" /\ f.val.typ = "vfunc"
      /\ Len(e.list) = 1
      /\ Len(f.val.v.list) = 1
      /\ Len(f.val.v.list[1].list) = 1
      /\ f.val.v.list[1].list[1].kind = "kreturnstmt"

\* The return statement of the function the call e of state st calls.
ReturnOf(st, e) == evalRvalue(st, e.list[1]).val.v.list[1].list[1]

\* C12: a call whose body executes return without an expression sets no
\* error, completes and yields the default value; a call whose body executes
\* return with an expression (here a literal) yields that expression's value.
C12_ReturnWithoutExpression ==
  (stage = "eval" /\ pc <= Len(stmts) /\ interp.err = "" /\ ~Stopped(interp)) =>
    \A e \in CallOf(stmts[pc]) :
      CallsReturn(interp, e) =>
        LET ret == ReturnOf(interp, e)
            r == evalRvalue(interp, e)
        IN  /\ r.panic = "" /\ ~r.hung
            /\ r.err = ""
            /\ IF ret.list[1] = NilNode THEN r.val = ZeroValue
               ELSE ret.list[1].kind \in {"knumlit", "kstringlit"}
                      => r.val = evalRvalue(interp, ret.list[1]).val

=============================================================================
